---- MODULE Spec2Model ----
(***************************************************************************)
(* Order lifecycle of the food delivery API: the transition table of       *)
(* statemachine/order_state.go and the handlers that read an order,        *)
(* validate a transition, write the new status and append a history        *)
(* record.  Every store statement (First, Update, Updates, Create) is one  *)
(* atomic step; handlers of concurrent requests interleave between them.   *)
(***************************************************************************)
EXTENDS Integers, Sequences, FiniteSets, TLC

\* ------------------------------------------------------------------------
\* models: order statuses and user roles
\* ------------------------------------------------------------------------
StatusPlaced == "PLACED"
StatusConfirmed == "CONFIRMED"
StatusPreparing == "PREPARING"
StatusReadyForPickup == "READY_FOR_PICKUP"
StatusPickedUp == "PICKED_UP"
StatusDelivered == "DELIVERED"
StatusCancelled == "CANCELLED"

OrderStatus ==
    { StatusPlaced, StatusConfirmed, StatusPreparing, StatusReadyForPickup,
      StatusPickedUp, StatusDelivered, StatusCancelled }

\* the zero value of an OrderStatus field (FromStatus of a creation record)
NoStatus == ""

\* the nil *uint of Order.DriverID, and the zero uint of an unset ChangedBy
NoUser == 0

RoleCustomer == "customer"
RoleRestaurant == "restaurant"
RoleDriver == "driver"
RoleAdmin == "admin"

\* registered users, by the role in their token
Customers == {1, 2}
Owners == {3, 4}
Drivers == {5, 6}
Admins == {7}

RoleOf(u) ==
    IF u \in Customers THEN RoleCustomer
    ELSE IF u \in Owners THEN RoleRestaurant
    ELSE IF u \in Drivers THEN RoleDriver
    ELSE IF u \in Admins THEN RoleAdmin
    ELSE "none"

\* ------------------------------------------------------------------------
\* bounds of the model
\* ------------------------------------------------------------------------
\* history records ever created while requests interleave (every accepted
\* request creates one)
MaxHist == 4
\* admin override requests ever accepted while requests interleave
MaxOverrides == 1
\* the same, and the orders ever placed, while requests run one at a time
MaxHistSerial == 4
MaxOverridesSerial == 2
MaxOrdersSerial == 1
\* entries of the item list of a PlaceOrder request
MaxItems == 1
\* the bounds of the requests that create restaurants and order several items
MaxRestaurants == 3
MaxItemsShop == 2
MaxHistShop == 4
MaxOverridesShop == 1

\* request-handling goroutines that can be running at once
Procs == {1, 2}

\* ------------------------------------------------------------------------
\* statemachine/order_state.go
\* ------------------------------------------------------------------------
Tr(from, to, actor) == [From |-> from, To |-> to, Actor |-> actor]

\* a mutant: a tenth triple lets a driver pick up a cancelled order
validTransitionsRevive ==
    << Tr(StatusPlaced, StatusConfirmed, "restaurant"),
       Tr(StatusPlaced, StatusCancelled, "restaurant"),
       Tr(StatusPlaced, StatusCancelled, "customer"),
       Tr(StatusConfirmed, StatusPreparing, "restaurant"),
       Tr(StatusConfirmed, StatusCancelled, "restaurant"),
       Tr(StatusConfirmed, StatusCancelled, "customer"),
       Tr(StatusPreparing, StatusReadyForPickup, "restaurant"),
       Tr(StatusReadyForPickup, StatusPickedUp, "driver"),
       Tr(StatusPickedUp, StatusDelivered, "driver"),
       Tr(StatusCancelled, StatusPickedUp, "driver") >>

\* a mutant: a tenth triple leads out of DELIVERED
validTransitionsReopened ==
    << Tr(StatusPlaced, StatusConfirmed, "restaurant"),
       Tr(StatusPlaced, StatusCancelled, "restaurant"),
       Tr(StatusPlaced, StatusCancelled, "customer"),
       Tr(StatusConfirmed, StatusPreparing, "restaurant"),
       Tr(StatusConfirmed, StatusCancelled, "restaurant"),
       Tr(StatusConfirmed, StatusCancelled, "customer"),
       Tr(StatusPreparing, StatusReadyForPickup, "restaurant"),
       Tr(StatusReadyForPickup, StatusPickedUp, "driver"),
       Tr(StatusPickedUp, StatusDelivered, "driver"),
       Tr(StatusDelivered, StatusPlaced, "restaurant") >>

validTransitions ==
    << Tr(StatusPlaced, StatusConfirmed, "restaurant"),
       Tr(StatusPlaced, StatusCancelled, "restaurant"),
       Tr(StatusPlaced, StatusCancelled, "customer"),
       Tr(StatusConfirmed, StatusPreparing, "restaurant"),
       Tr(StatusConfirmed, StatusCancelled, "restaurant"),
       Tr(StatusConfirmed, StatusCancelled, "customer"),
       Tr(StatusPreparing, StatusReadyForPickup, "restaurant"),
       Tr(StatusReadyForPickup, StatusPickedUp, "driver"),
       Tr(StatusPickedUp, StatusDelivered, "driver") >>

\* a mutant: the loop that fills the map stops one entry early
transitionMapSkipLast ==
    { validTransitions[i] : i \in 1..(Len(validTransitions) - 1) }

\* the lookup map: the set of keys mapped to true
transitionMap == { validTransitions[i] : i \in 1..Len(validTransitions) }

\* a mutant: the lookup ignores the actor of the key
CanTransitionAnyActor(from, to, actor) ==
    \E k \in transitionMap : k.From = from /\ k.To = to

\* TRUE when CanTransition returns a nil error
CanTransition(from, to, actor) ==
    Tr(from, to, actor) \in transitionMap

\* a mutant: the loop without the seen map
RECURSIVE NextsFromKeepAll(_, _, _)
NextsFromKeepAll(status, i, nexts) ==
    IF i > Len(validTransitions) THEN nexts
    ELSE IF validTransitions[i].From = status
         THEN NextsFromKeepAll(status, i + 1, Append(nexts, validTransitions[i].To))
         ELSE NextsFromKeepAll(status, i + 1, nexts)

RECURSIVE NextsFrom(_, _, _)
NextsFrom(status, i, nexts) ==
    IF i > Len(validTransitions) THEN nexts
    ELSE LET t == validTransitions[i]
             seen == { nexts[j] : j \in 1..Len(nexts) }
         IN  IF t.From = status /\ t.To \notin seen
             THEN NextsFrom(status, i + 1, Append(nexts, t.To))
             ELSE NextsFrom(status, i + 1, nexts)

ValidTransitionsFrom(status) == NextsFrom(status, 1, << >>)

\* ------------------------------------------------------------------------
\* the store: orders, order_status_histories, restaurants
\* ------------------------------------------------------------------------
VARIABLES
    orders,       \* table orders: sequence of rows, the row's ID is its index
    history,      \* table order_status_histories, in creation order
    restaurants,  \* table restaurants: sequence of rows, ID is the index
    req,          \* per goroutine: the request it handles and how far it is
    overrides     \* admin override requests accepted so far

vars == << orders, history, restaurants, req, overrides >>

\* the zero value of models.Order (var order models.Order)
NoOrder ==
    [CustomerID |-> 0, RestaurantID |-> 0, DriverID |-> NoUser,
     Status |-> NoStatus, EstimatedTime |-> 0, Items |-> << >>]

\* table menu_items, which no handler of the model changes: the row's ID is
\* its index; an ID outside the table is not found
MenuItems ==
    << [RestaurantID |-> 1, IsAvailable |-> TRUE],
       [RestaurantID |-> 1, IsAvailable |-> TRUE],
       [RestaurantID |-> 2, IsAvailable |-> TRUE],
       [RestaurantID |-> 1, IsAvailable |-> FALSE] >>

\* the prefix AdminForceOrderStatus puts in front of the reason
OverrideTag == "[ADMIN OVERRIDE] "

\* a note is the sequence of the pieces it is concatenated from
HasPrefix(note, tag) == Len(note) > 0 /\ note[1] = tag

\* what the requests of a specification are drawn from: the callers of the
\* routes of each group, the order IDs and restaurant IDs they name, the
\* bodies they send
\* requests that interleave: they follow one order through its life
RaceInputs ==
    [customers |-> {1}, owners |-> {3}, drivers |-> Drivers, admins |-> Admins,
     orderIDs |-> {1}, restaurantIDs |-> {1},
     \* lengths of the item list (binding: min=1); every entry names an
     \* available menu item of the requested restaurant
     itemLists |-> { << 1 >> },
     statuses |-> OrderStatus,
     forced |-> {StatusPlaced, StatusReadyForPickup, StatusDelivered},
     notes |-> { << "Order received!" >> },
     reasons |-> { << "emergency" >> },
     maxOrders |-> 1,
     maxHist |-> MaxHist,
     maxOverrides |-> MaxOverrides,
     tail |-> FALSE]

\* requests that run one at a time
SerialInputs ==
    [customers |-> {1}, owners |-> {3}, drivers |-> Drivers,
     admins |-> Admins,
     orderIDs |-> 1..(MaxOrdersSerial + 1), restaurantIDs |-> {1},
     itemLists |-> { [i \in 1..n |-> 1] : n \in 1..MaxItems },
     statuses |-> OrderStatus \cup {"BOGUS", NoStatus},
     forced |-> OrderStatus \cup {"BOGUS", NoStatus},
     \* a note of the owner's choice, among them one that begins like the
     \* note of an override
     notes |-> { << "Order received!" >>, << OverrideTag, "x" >> },
     reasons |-> { << "emergency" >> },
     maxOrders |-> MaxOrdersSerial,
     maxHist |-> MaxHistSerial,
     maxOverrides |-> MaxOverridesSerial,
     tail |-> FALSE]

\* every registered user
Users == Customers \cup Owners \cup Drivers \cup Admins

\* requests that run one at a time, sent by any user to any route, about
\* one order, up to the rejections that follow the last accepted request
AccessInputs ==
    [customers |-> Users, owners |-> Users, drivers |-> Users,
     admins |-> Users,
     orderIDs |-> {1, 2}, restaurantIDs |-> {1},
     itemLists |-> { << 1 >> },
     statuses |-> OrderStatus \cup {NoStatus},
     forced |-> OrderStatus \cup {"BOGUS", NoStatus},
     notes |-> { << "Order received!" >> },
     reasons |-> { << "emergency" >> },
     maxOrders |-> 1,
     maxHist |-> MaxHistSerial,
     maxOverrides |-> MaxOverridesSerial,
     tail |-> TRUE]

\* a goroutine that handles no request
Idle ==
    [pc |-> "idle", h |-> "", user |-> NoUser, oid |-> 0, to |-> NoStatus,
     note |-> << >>, order |-> NoOrder, out |-> ""]

\* the goroutine has sent the response `out` without touching the store further
Responded(h, user, oid, to, note, order, out) ==
    [pc |-> "done", h |-> h, user |-> user, oid |-> oid, to |-> to,
     note |-> note, order |-> order, out |-> out]

InFlight(p) == req[p].pc \notin {"idle", "done"}

\* requests that are about to create a history record
Pending == Cardinality({ p \in Procs : InFlight(p) })

\* the model accepts a request only while the history has room for its record
Room(maxHist) == Len(history) + Pending < maxHist

Exists(oid) == oid \in 1..Len(orders)

HistoryRecord(oid, from, to, by, note) ==
    [OrderID |-> oid, FromStatus |-> from, ToStatus |-> to,
     ChangedBy |-> by, Note |-> note]

Init ==
    /\ orders = << >>
    /\ history = << >>
    /\ restaurants = << [OwnerID |-> 3, IsOpen |-> TRUE],
                        [OwnerID |-> 4, IsOpen |-> TRUE] >>
    /\ req = [p \in Procs |-> Idle]
    /\ overrides = 0

\* ------------------------------------------------------------------------
\* handlers/driver.go: PickupOrder
\* ------------------------------------------------------------------------
\* a mutant: CanTransition is asked before the DriverID check
PickupOrderReadStageFirst(p, driverID, orderID) ==
    /\ req[p].pc = "idle"
    /\ LET r(order, out) ==
               Responded("PickupOrder", driverID, orderID, StatusPickedUp,
                         << >>, order, out)
       IN  IF ~Exists(orderID)
           THEN req' = [req EXCEPT ![p] = r(NoOrder, "NotFound")]
           ELSE LET order == orders[orderID] IN
                IF ~CanTransition(order.Status, StatusPickedUp, "driver")
                THEN req' = [req EXCEPT ![p] = r(order, "InvalidTransition")]
                ELSE IF order.DriverID # NoUser
                THEN req' = [req EXCEPT ![p] = r(order, "Conflict")]
                ELSE req' = [req EXCEPT ![p] =
                         [r(order, "") EXCEPT !.pc = "write"]]
    /\ UNCHANGED << orders, history, restaurants, overrides >>

\* a mutant: the driver is assigned before CanTransition is asked
PickupOrderReadClaimsFirst(p, driverID, orderID) ==
    /\ req[p].pc = "idle"
    /\ LET r(order, out) ==
               Responded("PickupOrder", driverID, orderID, StatusPickedUp,
                         << >>, order, out)
       IN  IF ~Exists(orderID)
           THEN /\ req' = [req EXCEPT ![p] = r(NoOrder, "NotFound")]
                /\ UNCHANGED orders
           ELSE LET order == orders[orderID] IN
                IF order.DriverID # NoUser
                THEN /\ req' = [req EXCEPT ![p] = r(order, "Conflict")]
                     /\ UNCHANGED orders
                ELSE IF ~CanTransition(order.Status, StatusPickedUp, "driver")
                THEN /\ req' = [req EXCEPT ![p] = r(order, "InvalidTransition")]
                     /\ orders' = [orders EXCEPT ![orderID].DriverID = driverID]
                ELSE /\ req' = [req EXCEPT ![p] =
                            [r(order, "") EXCEPT !.pc = "write"]]
                     /\ UNCHANGED orders
    /\ UNCHANGED << history, restaurants, overrides >>

\* First(&order), the DriverID check and CanTransition
PickupOrderRead(p, driverID, orderID) ==
    /\ req[p].pc = "idle"
    /\ LET r(order, out) ==
               Responded("PickupOrder", driverID, orderID, StatusPickedUp,
                         << >>, order, out)
       IN  IF ~Exists(orderID)
           THEN req' = [req EXCEPT ![p] = r(NoOrder, "NotFound")]
           ELSE LET order == orders[orderID] IN
                IF order.DriverID # NoUser
                THEN req' = [req EXCEPT ![p] = r(order, "Conflict")]
                ELSE IF ~CanTransition(order.Status, StatusPickedUp, "driver")
                THEN req' = [req EXCEPT ![p] = r(order, "InvalidTransition")]
                ELSE req' = [req EXCEPT ![p] =
                         [r(order, "") EXCEPT !.pc = "write"]]
    /\ UNCHANGED << orders, history, restaurants, overrides >>

\* a mutant: the update map carries driver_id but not status
PickupOrderWriteDriverOnly(p) ==
    /\ req[p].pc = "write"
    /\ req[p].h = "PickupOrder"
    /\ orders' = [orders EXCEPT ![req[p].oid].DriverID = req[p].user]
    /\ req' = [req EXCEPT ![p].pc = "hist"]
    /\ UNCHANGED << history, restaurants, overrides >>

\* Model(&order).Updates({status, driver_id}): UPDATE ... WHERE id = order.ID
PickupOrderWrite(p) ==
    /\ req[p].pc = "write"
    /\ req[p].h = "PickupOrder"
    /\ orders' = [orders EXCEPT ![req[p].oid] =
                     [@ EXCEPT !.Status = StatusPickedUp,
                               !.DriverID = req[p].user]]
    /\ req' = [req EXCEPT ![p].pc = "hist"]
    /\ UNCHANGED << history, restaurants, overrides >>

\* Create(&history) and the 200 response
PickupOrderHist(p) ==
    /\ req[p].pc = "hist"
    /\ req[p].h = "PickupOrder"
    /\ history' = Append(history,
           HistoryRecord(req[p].oid, req[p].order.Status, StatusPickedUp,
                         req[p].user, << "Driver picked up the order" >>))
    /\ req' = [req EXCEPT ![p].pc = "done", ![p].out = "OK"]
    /\ UNCHANGED << orders, restaurants, overrides >>

\* the handler returns; the goroutine is free for the next request
Return(p) ==
    /\ req[p].pc = "done"
    /\ req' = [req EXCEPT ![p] = Idle]
    /\ UNCHANGED << orders, history, restaurants, overrides >>

\* ------------------------------------------------------------------------
\* handlers/driver.go: DeliverOrder
\* ------------------------------------------------------------------------
\* a mutant: any driver may deliver an order that has a driver
DeliverOrderReadAnyDriver(p, driverID, orderID) ==
    /\ req[p].pc = "idle"
    /\ LET r(order, out) ==
               Responded("DeliverOrder", driverID, orderID, StatusDelivered,
                         << >>, order, out)
       IN  IF ~Exists(orderID)
           THEN req' = [req EXCEPT ![p] = r(NoOrder, "NotFound")]
           ELSE LET order == orders[orderID] IN
                IF order.DriverID = NoUser
                THEN req' = [req EXCEPT ![p] = r(order, "Forbidden")]
                ELSE IF ~CanTransition(order.Status, StatusDelivered, "driver")
                THEN req' = [req EXCEPT ![p] = r(order, "InvalidTransition")]
                ELSE req' = [req EXCEPT ![p] =
                         [r(order, "") EXCEPT !.pc = "write"]]
    /\ UNCHANGED << orders, history, restaurants, overrides >>

\* First(&order), the assigned-driver check and CanTransition
DeliverOrderRead(p, driverID, orderID) ==
    /\ req[p].pc = "idle"
    /\ LET r(order, out) ==
               Responded("DeliverOrder", driverID, orderID, StatusDelivered,
                         << >>, order, out)
       IN  IF ~Exists(orderID)
           THEN req' = [req EXCEPT ![p] = r(NoOrder, "NotFound")]
           ELSE LET order == orders[orderID] IN
                IF order.DriverID = NoUser \/ order.DriverID # driverID
                THEN req' = [req EXCEPT ![p] = r(order, "Forbidden")]
                ELSE IF ~CanTransition(order.Status, StatusDelivered, "driver")
                THEN req' = [req EXCEPT ![p] = r(order, "InvalidTransition")]
                ELSE req' = [req EXCEPT ![p] =
                         [r(order, "") EXCEPT !.pc = "write"]]
    /\ UNCHANGED << orders, history, restaurants, overrides >>

\* Model(&order).Update("status", DELIVERED)
DeliverOrderWrite(p) ==
    /\ req[p].pc = "write"
    /\ req[p].h = "DeliverOrder"
    /\ orders' = [orders EXCEPT ![req[p].oid].Status = StatusDelivered]
    /\ req' = [req EXCEPT ![p].pc = "hist"]
    /\ UNCHANGED << history, restaurants, overrides >>

DeliverOrderHist(p) ==
    /\ req[p].pc = "hist"
    /\ req[p].h = "DeliverOrder"
    /\ history' = Append(history,
           HistoryRecord(req[p].oid, req[p].order.Status, StatusDelivered,
                         req[p].user, << "Order delivered to customer" >>))
    /\ req' = [req EXCEPT ![p].pc = "done", ![p].out = "OK"]
    /\ UNCHANGED << orders, restaurants, overrides >>

\* ------------------------------------------------------------------------
\* handlers/customer.go: CancelOrder, PlaceOrder
\* ------------------------------------------------------------------------
\* a mutant: the handler without its ownership check
CancelOrderReadAnyCustomer(p, customerID, orderID) ==
    /\ req[p].pc = "idle"
    /\ LET r(order, out) ==
               Responded("CancelOrder", customerID, orderID, StatusCancelled,
                         << >>, order, out)
       IN  IF ~Exists(orderID)
           THEN req' = [req EXCEPT ![p] = r(NoOrder, "NotFound")]
           ELSE LET order == orders[orderID] IN
                IF ~CanTransition(order.Status, StatusCancelled, "customer")
                THEN req' = [req EXCEPT ![p] = r(order, "InvalidTransition")]
                ELSE req' = [req EXCEPT ![p] =
                         [r(order, "") EXCEPT !.pc = "write"]]
    /\ UNCHANGED << orders, history, restaurants, overrides >>

\* a mutant: the handler without its CanTransition check
CancelOrderReadUnchecked(p, customerID, orderID) ==
    /\ req[p].pc = "idle"
    /\ LET r(order, out) ==
               Responded("CancelOrder", customerID, orderID, StatusCancelled,
                         << >>, order, out)
       IN  IF ~Exists(orderID)
           THEN req' = [req EXCEPT ![p] = r(NoOrder, "NotFound")]
           ELSE LET order == orders[orderID] IN
                IF order.CustomerID # customerID
                THEN req' = [req EXCEPT ![p] = r(order, "Forbidden")]
                ELSE req' = [req EXCEPT ![p] =
                         [r(order, "") EXCEPT !.pc = "write"]]
    /\ UNCHANGED << orders, history, restaurants, overrides >>

\* First(&order), the ownership check and CanTransition
CancelOrderRead(p, customerID, orderID) ==
    /\ req[p].pc = "idle"
    /\ LET r(order, out) ==
               Responded("CancelOrder", customerID, orderID, StatusCancelled,
                         << >>, order, out)
       IN  IF ~Exists(orderID)
           THEN req' = [req EXCEPT ![p] = r(NoOrder, "NotFound")]
           ELSE LET order == orders[orderID] IN
                IF order.CustomerID # customerID
                THEN req' = [req EXCEPT ![p] = r(order, "Forbidden")]
                ELSE IF ~CanTransition(order.Status, StatusCancelled, "customer")
                THEN req' = [req EXCEPT ![p] = r(order, "InvalidTransition")]
                ELSE req' = [req EXCEPT ![p] =
                         [r(order, "") EXCEPT !.pc = "write"]]
    /\ UNCHANGED << orders, history, restaurants, overrides >>

\* Model(&order).Update("status", CANCELLED)
CancelOrderWrite(p) ==
    /\ req[p].pc = "write"
    /\ req[p].h = "CancelOrder"
    /\ orders' = [orders EXCEPT ![req[p].oid].Status = StatusCancelled]
    /\ req' = [req EXCEPT ![p].pc = "hist"]
    /\ UNCHANGED << history, restaurants, overrides >>

\* a mutant: the 200 response without Create(&history)
CancelOrderHistSilent(p) ==
    /\ req[p].pc = "hist"
    /\ req[p].h = "CancelOrder"
    /\ req' = [req EXCEPT ![p].pc = "done", ![p].out = "OK"]
    /\ UNCHANGED << orders, history, restaurants, overrides >>

CancelOrderHist(p) ==
    /\ req[p].pc = "hist"
    /\ req[p].h = "CancelOrder"
    /\ history' = Append(history,
           HistoryRecord(req[p].oid, req[p].order.Status, StatusCancelled,
                         req[p].user, << "Order cancelled by customer" >>))
    /\ req' = [req EXCEPT ![p].pc = "done", ![p].out = "OK"]
    /\ UNCHANGED << orders, restaurants, overrides >>

\* ShouldBindJSON, the restaurant lookup, the open check, the loop over the
\* items, the estimated time and Create(&order); the catalog does
\* not change, so the reads of it commute with every other step
PlaceOrderCreate(p, customerID, restaurantID, items) ==
    /\ req[p].pc = "idle"
    /\ LET r(oid, order, out) ==
               Responded("PlaceOrder", customerID, oid, StatusPlaced,
                         << >>, order, out)
           \* the loop over req.Items finds each menu item, of this
           \* restaurant and available
           itemsOK == \A i \in 1..Len(items) :
                         /\ items[i] \in 1..Len(MenuItems)
                         /\ MenuItems[items[i]].RestaurantID = restaurantID
                         /\ MenuItems[items[i]].IsAvailable
       IN  IF Len(items) < 1
           THEN /\ req' = [req EXCEPT ![p] = r(0, NoOrder, "BadRequest")]
                /\ UNCHANGED orders
           ELSE IF restaurantID \notin 1..Len(restaurants)
           THEN /\ req' = [req EXCEPT ![p] = r(0, NoOrder, "NotFound")]
                /\ UNCHANGED orders
           ELSE IF ~restaurants[restaurantID].IsOpen
           THEN /\ req' = [req EXCEPT ![p] = r(0, NoOrder, "BadRequest")]
                /\ UNCHANGED orders
           ELSE IF ~itemsOK
           THEN /\ req' = [req EXCEPT ![p] = r(0, NoOrder, "BadRequest")]
                /\ UNCHANGED orders
           ELSE LET order == [CustomerID |-> customerID,
                              RestaurantID |-> restaurantID,
                              DriverID |-> NoUser,
                              Status |-> StatusPlaced,
                              EstimatedTime |-> 30 + (5 * Len(items)),
                              Items |-> items]
                IN  /\ orders' = Append(orders, order)
                    /\ req' = [req EXCEPT ![p] =
                           [r(Len(orders) + 1, order, "") EXCEPT !.pc = "hist"]]
    /\ UNCHANGED << history, restaurants, overrides >>

\* a mutant: the initial record names PLACED as the status it comes from
PlaceOrderHistFromPlaced(p) ==
    /\ req[p].pc = "hist"
    /\ req[p].h = "PlaceOrder"
    /\ history' = Append(history,
           HistoryRecord(req[p].oid, StatusPlaced, StatusPlaced, req[p].user,
                         << "Order placed by customer" >>))
    /\ req' = [req EXCEPT ![p].pc = "done", ![p].out = "OK"]
    /\ UNCHANGED << orders, restaurants, overrides >>

\* the initial history record and the 201 response
PlaceOrderHist(p) ==
    /\ req[p].pc = "hist"
    /\ req[p].h = "PlaceOrder"
    /\ history' = Append(history,
           HistoryRecord(req[p].oid, NoStatus, StatusPlaced, req[p].user,
                         << "Order placed by customer" >>))
    /\ req' = [req EXCEPT ![p].pc = "done", ![p].out = "OK"]
    /\ UNCHANGED << orders, restaurants, overrides >>

\* ------------------------------------------------------------------------
\* handlers/restaurant_order.go: UpdateOrderStatus
\* ------------------------------------------------------------------------
\* Where("owner_id = ?", ownerID).First(&restaurant): the row with the least
\* ID among the owner's restaurants, 0 when there is none
FirstRestaurantOf(ownerID) ==
    LET mine == { i \in 1..Len(restaurants) : restaurants[i].OwnerID = ownerID }
    IN  IF mine = {} THEN 0
        ELSE CHOOSE i \in mine : \A j \in mine : i <= j

\* a mutant: the body is bound before the restaurant and the order are read
UpdateOrderStatusReadBindFirst(p, ownerID, orderID, status, note) ==
    /\ req[p].pc = "idle"
    /\ LET r(order, out) ==
               Responded("UpdateOrderStatus", ownerID, orderID, status,
                         note, order, out)
       IN  IF status = NoStatus
           THEN req' = [req EXCEPT ![p] = r(NoOrder, "BadRequest")]
           ELSE IF FirstRestaurantOf(ownerID) = 0
           THEN req' = [req EXCEPT ![p] = r(NoOrder, "NotFound")]
           ELSE IF ~Exists(orderID)
           THEN req' = [req EXCEPT ![p] = r(NoOrder, "NotFound")]
           ELSE LET order == orders[orderID] IN
                IF order.RestaurantID # FirstRestaurantOf(ownerID)
                THEN req' = [req EXCEPT ![p] = r(order, "Forbidden")]
                ELSE IF ~CanTransition(order.Status, status, "restaurant")
                THEN req' = [req EXCEPT ![p] = r(order, "InvalidTransition")]
                ELSE req' = [req EXCEPT ![p] =
                         [r(order, "") EXCEPT !.pc = "write"]]
    /\ UNCHANGED << orders, history, restaurants, overrides >>

\* the restaurant of the owner, First(&order), the ownership check,
\* ShouldBindJSON and CanTransition
UpdateOrderStatusRead(p, ownerID, orderID, status, note) ==
    /\ req[p].pc = "idle"
    /\ LET r(order, out) ==
               Responded("UpdateOrderStatus", ownerID, orderID, status,
                         note, order, out)
       IN  IF FirstRestaurantOf(ownerID) = 0
           THEN req' = [req EXCEPT ![p] = r(NoOrder, "NotFound")]
           ELSE IF ~Exists(orderID)
           THEN req' = [req EXCEPT ![p] = r(NoOrder, "NotFound")]
           ELSE LET order == orders[orderID] IN
                IF order.RestaurantID # FirstRestaurantOf(ownerID)
                THEN req' = [req EXCEPT ![p] = r(order, "Forbidden")]
                ELSE IF status = NoStatus
                THEN req' = [req EXCEPT ![p] = r(order, "BadRequest")]
                ELSE IF ~CanTransition(order.Status, status, "restaurant")
                THEN req' = [req EXCEPT ![p] = r(order, "InvalidTransition")]
                ELSE req' = [req EXCEPT ![p] =
                         [r(order, "") EXCEPT !.pc = "write"]]
    /\ UNCHANGED << orders, history, restaurants, overrides >>

\* Model(&order).Update("status", req.Status)
UpdateOrderStatusWrite(p) ==
    /\ req[p].pc = "write"
    /\ req[p].h = "UpdateOrderStatus"
    /\ orders' = [orders EXCEPT ![req[p].oid].Status = req[p].to]
    /\ req' = [req EXCEPT ![p].pc =
                  IF req[p].to = StatusPreparing THEN "eta" ELSE "hist"]
    /\ UNCHANGED << history, restaurants, overrides >>

\* Model(&order).Update("estimated_time", 20), only when preparing
UpdateOrderStatusEta(p) ==
    /\ req[p].pc = "eta"
    /\ req[p].h = "UpdateOrderStatus"
    /\ orders' = [orders EXCEPT ![req[p].oid].EstimatedTime = 20]
    /\ req' = [req EXCEPT ![p].pc = "hist"]
    /\ UNCHANGED << history, restaurants, overrides >>

UpdateOrderStatusHist(p) ==
    /\ req[p].pc = "hist"
    /\ req[p].h = "UpdateOrderStatus"
    /\ history' = Append(history,
           HistoryRecord(req[p].oid, req[p].order.Status, req[p].to,
                         req[p].user, req[p].note))
    /\ req' = [req EXCEPT ![p].pc = "done", ![p].out = "OK"]
    /\ UNCHANGED << orders, restaurants, overrides >>

\* ------------------------------------------------------------------------
\* handlers/admin.go: AdminForceOrderStatus
\* ------------------------------------------------------------------------
\* a mutant: the override asks CanTransition as actor admin
AdminForceOrderStatusReadChecked(p, adminID, orderID, status, reason) ==
    /\ req[p].pc = "idle"
    /\ LET r(order, out) ==
               Responded("AdminForceOrderStatus", adminID, orderID, status,
                         reason, order, out)
       IN  IF status = NoStatus
           THEN /\ req' = [req EXCEPT ![p] = r(NoOrder, "BadRequest")]
                /\ UNCHANGED overrides
           ELSE IF ~Exists(orderID)
           THEN /\ req' = [req EXCEPT ![p] = r(NoOrder, "NotFound")]
                /\ UNCHANGED overrides
           ELSE IF ~CanTransition(orders[orderID].Status, status, "admin")
           THEN /\ req' = [req EXCEPT ![p] =
                       r(orders[orderID], "InvalidTransition")]
                /\ UNCHANGED overrides
           ELSE /\ req' = [req EXCEPT ![p] =
                       [r(orders[orderID], "") EXCEPT !.pc = "write"]]
                /\ overrides' = overrides + 1
    /\ UNCHANGED << orders, history, restaurants >>

\* ShouldBindJSON and First(&order); no CanTransition
AdminForceOrderStatusRead(p, adminID, orderID, status, reason) ==
    /\ req[p].pc = "idle"
    /\ LET r(order, out) ==
               Responded("AdminForceOrderStatus", adminID, orderID, status,
                         reason, order, out)
       IN  IF status = NoStatus
           THEN /\ req' = [req EXCEPT ![p] = r(NoOrder, "BadRequest")]
                /\ UNCHANGED overrides
           ELSE IF ~Exists(orderID)
           THEN /\ req' = [req EXCEPT ![p] = r(NoOrder, "NotFound")]
                /\ UNCHANGED overrides
           ELSE /\ req' = [req EXCEPT ![p] =
                       [r(orders[orderID], "") EXCEPT !.pc = "write"]]
                /\ overrides' = overrides + 1
    /\ UNCHANGED << orders, history, restaurants >>

\* Model(&order).Update("status", req.Status)
AdminForceOrderStatusWrite(p) ==
    /\ req[p].pc = "write"
    /\ req[p].h = "AdminForceOrderStatus"
    /\ orders' = [orders EXCEPT ![req[p].oid].Status = req[p].to]
    /\ req' = [req EXCEPT ![p].pc = "hist"]
    /\ UNCHANGED << history, restaurants, overrides >>

\* a mutant: the override rewrites the latest record in place
AdminForceOrderStatusHistAmend(p) ==
    /\ req[p].pc = "hist"
    /\ req[p].h = "AdminForceOrderStatus"
    /\ history' = [history EXCEPT ![Len(history)] =
           HistoryRecord(req[p].oid, req[p].order.Status, req[p].to,
                         NoUser, << OverrideTag >> \o req[p].note)]
    /\ req' = [req EXCEPT ![p].pc = "done", ![p].out = "OK"]
    /\ UNCHANGED << orders, restaurants, overrides >>

\* the history record leaves ChangedBy at its zero value
AdminForceOrderStatusHist(p) ==
    /\ req[p].pc = "hist"
    /\ req[p].h = "AdminForceOrderStatus"
    /\ history' = Append(history,
           HistoryRecord(req[p].oid, req[p].order.Status, req[p].to,
                         NoUser, << OverrideTag >> \o req[p].note))
    /\ req' = [req EXCEPT ![p].pc = "done", ![p].out = "OK"]
    /\ UNCHANGED << orders, restaurants, overrides >>

\* ------------------------------------------------------------------------
\* the server: every route, under the role its group requires
\* ------------------------------------------------------------------------
\* a mutant: the middleware lets every role through
RoleRequiredAnyRole(callerRole, roles) == TRUE

\* middleware.RoleRequired: the caller's role is one of the group's roles
RoleRequired(callerRole, roles) == callerRole \in roles

\* the 403 of RoleRequired; the handler does not run
AccessDenied(p, h, u) ==
    /\ req[p].pc = "idle"
    /\ req' = [req EXCEPT ![p] =
           Responded(h, u, 0, NoStatus, << >>, NoOrder, "Forbidden")]
    /\ UNCHANGED << orders, history, restaurants, overrides >>

\* a route of a group: the middleware, then the handler
Route(p, u, roles, h, handler) ==
    IF RoleRequired(RoleOf(u), roles) THEN handler ELSE AccessDenied(p, h, u)

\* goroutines are interchangeable: a new request is taken by the first free
\* one
Accepts(p) == \A q \in Procs : q < p => req[q].pc # "idle"

\* a request is taken only while the model has room for the history record
\* it creates; where in.tail is set, a request that is rejected is taken
\* even when there is no room
Bounded(p, in) == Room(in.maxHist) \/ (in.tail /\ req'[p].pc = "done")

Step(p, in) ==
    \/ \E u \in in.customers, rid \in in.restaurantIDs, items \in in.itemLists :
           /\ Accepts(p)
           /\ Len(orders) < in.maxOrders
           /\ Route(p, u, {RoleCustomer}, "PlaceOrder",
                    PlaceOrderCreate(p, u, rid, items))
           /\ Bounded(p, in)
    \/ PlaceOrderHist(p)
    \/ \E u \in in.customers, oid \in in.orderIDs :
           /\ Accepts(p)
           /\ Route(p, u, {RoleCustomer}, "CancelOrder",
                    CancelOrderRead(p, u, oid))
           /\ Bounded(p, in)
    \/ CancelOrderWrite(p)
    \/ CancelOrderHist(p)
    \/ \E u \in in.owners, oid \in in.orderIDs, st \in in.statuses, n \in in.notes :
           /\ Accepts(p)
           /\ Route(p, u, {RoleRestaurant}, "UpdateOrderStatus",
                    UpdateOrderStatusRead(p, u, oid, st, n))
           /\ Bounded(p, in)
    \/ UpdateOrderStatusWrite(p)
    \/ UpdateOrderStatusEta(p)
    \/ UpdateOrderStatusHist(p)
    \/ \E u \in in.drivers, oid \in in.orderIDs :
           /\ Accepts(p)
           /\ Route(p, u, {RoleDriver}, "PickupOrder",
                    PickupOrderRead(p, u, oid))
           /\ Bounded(p, in)
    \/ PickupOrderWrite(p)
    \/ PickupOrderHist(p)
    \/ \E u \in in.drivers, oid \in in.orderIDs :
           /\ Accepts(p)
           /\ Route(p, u, {RoleDriver}, "DeliverOrder",
                    DeliverOrderRead(p, u, oid))
           /\ Bounded(p, in)
    \/ DeliverOrderWrite(p)
    \/ DeliverOrderHist(p)
    \/ \E u \in in.admins, oid \in in.orderIDs, st \in in.forced, rs \in in.reasons :
           /\ Accepts(p)
           /\ overrides < in.maxOverrides
           /\ Route(p, u, {RoleAdmin}, "AdminForceOrderStatus",
                    AdminForceOrderStatusRead(p, u, oid, st, rs))
           /\ Bounded(p, in)
    \/ AdminForceOrderStatusWrite(p)
    \/ AdminForceOrderStatusHist(p)
    \/ Return(p)

\* concurrent requests: any two handlers interleave between store statements
Next == \E p \in Procs : Step(p, RaceInputs)

Spec == Init /\ [][Next]_vars

\* one request at a time: each request runs to its response before the next
NextSerial == Step(1, SerialInputs)

SpecSerial == Init /\ [][NextSerial]_vars

\* one request at a time, by any user on any route
NextAccess == Step(1, AccessInputs)

SpecAccess == Init /\ [][NextAccess]_vars

\* ------------------------------------------------------------------------
\* handlers/driver.go: GetAvailableOrders
\* ------------------------------------------------------------------------
\* the IDs 1..n in ascending order
RECURSIVE IDsUpTo(_)
IDsUpTo(n) == IF n = 0 THEN << >> ELSE Append(IDsUpTo(n - 1), n)

\* a mutant: the query without its status condition
GetAvailableOrdersAnyStatus ==
    SelectSeq(IDsUpTo(Len(orders)),
              LAMBDA oid : orders[oid].DriverID = NoUser)

\* Where("status = ? AND driver_id IS NULL", READY_FOR_PICKUP), in the order
\* of creation: the IDs of the orders found
GetAvailableOrders ==
    SelectSeq(IDsUpTo(Len(orders)),
              LAMBDA oid : /\ orders[oid].Status = StatusReadyForPickup
                           /\ orders[oid].DriverID = NoUser)

\* ------------------------------------------------------------------------
\* handlers/restaurant.go: CreateRestaurant
\* ------------------------------------------------------------------------
\* ShouldBindJSON (name is required) and Create(&restaurant): no lookup of a
\* restaurant the caller already owns
CreateRestaurant(p, ownerID, name) ==
    /\ req[p].pc = "idle"
    /\ LET r(out) ==
               Responded("CreateRestaurant", ownerID, 0, NoStatus, << >>,
                         NoOrder, out)
       IN  IF name = ""
           THEN /\ req' = [req EXCEPT ![p] = r("BadRequest")]
                /\ UNCHANGED restaurants
           ELSE /\ restaurants' = Append(restaurants,
                       [OwnerID |-> ownerID, IsOpen |-> TRUE])
                /\ req' = [req EXCEPT ![p] = r("OK")]
    /\ UNCHANGED << orders, history, overrides >>

\* the item lists of at most n entries over the menu item IDs ids
ItemLists(ids, n) == UNION { [1..k -> ids] : k \in 1..n }

\* one request at a time; owners create restaurants and customers order
\* lists of several items, some naming a menu item twice
ShopInputs ==
    [customers |-> {1},
     owners |-> Owners,
     drivers |-> {5},
     admins |-> Admins,
     orderIDs |-> {1},
     restaurantIDs |-> {1, 2},
     itemLists |-> ItemLists(1..Len(MenuItems), MaxItemsShop),
     statuses |-> {StatusConfirmed, StatusPreparing, StatusCancelled},
     forced |-> {StatusReadyForPickup},
     notes |-> { << "Order received!" >> },
     reasons |-> { << "Customer complaint" >> },
     names |-> {"", "Spice Garden"},
     maxOrders |-> 1,
     maxHist |-> MaxHistShop,
     maxOverrides |-> MaxOverridesShop,
     maxRestaurants |-> MaxRestaurants,
     tail |-> FALSE]

NextShop ==
    \/ Step(1, ShopInputs)
    \/ \E u \in ShopInputs.owners, name \in ShopInputs.names :
           /\ Accepts(1)
           /\ Len(restaurants) < ShopInputs.maxRestaurants
           /\ Route(1, u, {RoleRestaurant}, "CreateRestaurant",
                    CreateRestaurant(1, u, name))

SpecShop == Init /\ [][NextShop]_vars

\* ------------------------------------------------------------------------
\* the state machine package called on its own: one call per behaviour, its
\* arguments fixed in the initial state
\* ------------------------------------------------------------------------
\* arguments of the calls: the seven statuses, a string that is no status and
\* the empty string; the actor strings of the table, two that are in no
\* triple and the empty string
CallStatuses == OrderStatus \cup {"BOGUS", NoStatus}
CallActors == {"customer", "restaurant", "driver", "admin", "system", ""}

CanTransitionCall(from, to, actor) ==
    [pc |-> "call", h |-> "CanTransition", from |-> from, to |-> to,
     actor |-> actor, err |-> "", nexts |-> << >>, info |-> << >>]

ValidTransitionsFromCall(status) ==
    [pc |-> "call", h |-> "ValidTransitionsFrom", from |-> status,
     to |-> NoStatus, actor |-> "", err |-> "", nexts |-> << >>,
     info |-> << >>]

\* ------------------------------------------------------------------------
\* handlers/public.go: GetStateMachineInfo
\* ------------------------------------------------------------------------
Entry(from, to, actor) == [from |-> from, to |-> to, actor |-> actor]

\* a mutant: the two cancel entries name the restaurant only
GetStateMachineInfoRestaurantOnly ==
    [state_machine |->
        << Entry("PLACED", "CONFIRMED", "restaurant"),
           Entry("PLACED", "CANCELLED", "restaurant"),
           Entry("CONFIRMED", "PREPARING", "restaurant"),
           Entry("CONFIRMED", "CANCELLED", "restaurant"),
           Entry("PREPARING", "READY_FOR_PICKUP", "restaurant"),
           Entry("READY_FOR_PICKUP", "PICKED_UP", "driver"),
           Entry("PICKED_UP", "DELIVERED", "driver") >>,
     terminal_states |-> << "DELIVERED", "CANCELLED" >>,
     description |-> "Food Delivery Order Lifecycle State Machine"]

\* the body of the 200: the literals of the handler
GetStateMachineInfo ==
    [state_machine |->
        << Entry("PLACED", "CONFIRMED", "restaurant"),
           Entry("PLACED", "CANCELLED", "restaurant or customer"),
           Entry("CONFIRMED", "PREPARING", "restaurant"),
           Entry("CONFIRMED", "CANCELLED", "restaurant or customer"),
           Entry("PREPARING", "READY_FOR_PICKUP", "restaurant"),
           Entry("READY_FOR_PICKUP", "PICKED_UP", "driver"),
           Entry("PICKED_UP", "DELIVERED", "driver") >>,
     terminal_states |-> << "DELIVERED", "CANCELLED" >>,
     description |-> "Food Delivery Order Lifecycle State Machine"]

GetStateMachineInfoCall ==
    [pc |-> "call", h |-> "GetStateMachineInfo", from |-> NoStatus,
     to |-> NoStatus, actor |-> "", err |-> "", nexts |-> << >>,
     info |-> << >>]

InitCalls ==
    /\ orders = << >>
    /\ history = << >>
    /\ restaurants = << >>
    /\ overrides = 0
    /\ \E call \in { CanTransitionCall(f, t, a) :
                        f \in CallStatuses, t \in CallStatuses, a \in CallActors }
                  \cup { ValidTransitionsFromCall(f) : f \in CallStatuses }
                  \cup { GetStateMachineInfoCall } :
           req = [p \in Procs |-> IF p = 1 THEN call ELSE Idle]

\* CanTransition returns nil or an error
CanTransitionReturn(p) ==
    /\ req[p].pc = "call"
    /\ req[p].h = "CanTransition"
    /\ req' = [req EXCEPT
           ![p].pc = "returned",
           ![p].err = IF CanTransition(req[p].from, req[p].to, req[p].actor)
                      THEN "nil" ELSE "invalid transition"]
    /\ UNCHANGED << orders, history, restaurants, overrides >>

\* ValidTransitionsFrom returns the slice nexts
ValidTransitionsFromReturn(p) ==
    /\ req[p].pc = "call"
    /\ req[p].h = "ValidTransitionsFrom"
    /\ req' = [req EXCEPT ![p].pc = "returned",
                          ![p].nexts = ValidTransitionsFrom(req[p].from)]
    /\ UNCHANGED << orders, history, restaurants, overrides >>

\* GetStateMachineInfo answers with its body
GetStateMachineInfoReturn(p) ==
    /\ req[p].pc = "call"
    /\ req[p].h = "GetStateMachineInfo"
    /\ req' = [req EXCEPT
           ![p].pc = "returned",
           ![p].info = GetStateMachineInfo.state_machine,
           ![p].nexts = GetStateMachineInfo.terminal_states]
    /\ UNCHANGED << orders, history, restaurants, overrides >>

NextCalls ==
    \/ CanTransitionReturn(1)
    \/ ValidTransitionsFromReturn(1)
    \/ GetStateMachineInfoReturn(1)

SpecCalls == InitCalls /\ [][NextCalls]_vars

\* ------------------------------------------------------------------------
\* the JSON bodies of the responses
\* ------------------------------------------------------------------------
\* a mutant: the text never lists a status
DescribeValidFromNone(status) == << "none (terminal state)" >>

\* describeValidFrom: the names of the next statuses, which the code joins
\* with ", ", or a fixed text when there is none
DescribeValidFrom(status) ==
    IF Len(ValidTransitionsFrom(status)) = 0
    THEN << "none (terminal state)" >>
    ELSE ValidTransitionsFrom(status)

\* the pieces of the message of the error CanTransition returns
TransitionError(from, to, actor) ==
    << "invalid transition: ", from, " -> ", to,
       " is not allowed for actor '", actor, "'. ",
       "Valid transitions from ", from, " are: " >> \o DescribeValidFrom(from)

\* the 422 and the 200 of PickupOrder, from the request r as it stands when
\* the response is sent; any other response has only its error text
PickupOrderBody(r) ==
    IF r.out = "InvalidTransition"
    THEN [error |-> "Invalid state transition",
          current_status |-> r.order.Status,
          reason |-> TransitionError(r.order.Status, StatusPickedUp, "driver"),
          valid_next_states |-> ValidTransitionsFrom(r.order.Status)]
    ELSE IF r.out = "OK"
    THEN [message |-> "Order picked up successfully", order_id |-> r.oid,
          status |-> StatusPickedUp]
    ELSE [error |-> r.out]

\* the 422 and the 200 of DeliverOrder
DeliverOrderBody(r) ==
    IF r.out = "InvalidTransition"
    THEN [error |-> "Invalid state transition",
          current_status |-> r.order.Status,
          reason |-> TransitionError(r.order.Status, StatusDelivered, "driver")]
    ELSE IF r.out = "OK"
    THEN [message |-> "Order delivered successfully!", order_id |-> r.oid,
          status |-> StatusDelivered]
    ELSE [error |-> r.out]

\* the 422 and the 200 of CancelOrder
CancelOrderBody(r) ==
    IF r.out = "InvalidTransition"
    THEN [error |-> "Cannot cancel order",
          reason |-> TransitionError(r.order.Status, StatusCancelled,
                                     "customer"),
          current_state |-> r.order.Status]
    ELSE IF r.out = "OK"
    THEN [message |-> "Order cancelled successfully", order_id |-> r.oid]
    ELSE [error |-> r.out]

\* the 422 and the 200 of UpdateOrderStatus
UpdateOrderStatusBody(r) ==
    IF r.out = "InvalidTransition"
    THEN [error |-> "Invalid state transition",
          current_status |-> r.order.Status,
          requested |-> r.to,
          reason |-> TransitionError(r.order.Status, r.to, "restaurant"),
          valid_next_states |-> ValidTransitionsFrom(r.order.Status)]
    ELSE IF r.out = "OK"
    THEN [message |-> "Order status updated", order_id |-> r.oid,
          previous_status |-> r.order.Status, current_status |-> r.to]
    ELSE [error |-> r.out]

\* the 200 of AdminForceOrderStatus
AdminForceOrderStatusBody(r) ==
    IF r.out = "OK"
    THEN [message |-> "Order status force-updated by admin",
          order_id |-> r.oid,
          previous_status |-> r.order.Status, new_status |-> r.to]
    ELSE [error |-> r.out]

\* the JSON body the handler of request r sends
ResponseBody(r) ==
    IF r.h = "PickupOrder" THEN PickupOrderBody(r)
    ELSE IF r.h = "DeliverOrder" THEN DeliverOrderBody(r)
    ELSE IF r.h = "CancelOrder" THEN CancelOrderBody(r)
    ELSE IF r.h = "UpdateOrderStatus" THEN UpdateOrderStatusBody(r)
    ELSE IF r.h = "AdminForceOrderStatus" THEN AdminForceOrderStatusBody(r)
    ELSE [error |-> r.out]

\* ------------------------------------------------------------------------
\* vocabulary of the properties
\* ------------------------------------------------------------------------
Done(p) == req[p].pc = "done"

\* the actor string the handler passes to CanTransition
ActorOf(h) ==
    IF h = "CancelOrder" THEN "customer"
    ELSE IF h = "UpdateOrderStatus" THEN "restaurant"
    ELSE IF h \in {"PickupOrder", "DeliverOrder"} THEN "driver"
    ELSE "none"

Workflow == {"CancelOrder", "UpdateOrderStatus", "PickupOrder", "DeliverOrder"}

\* goroutine p performs its status write in this step
Writes(p) == req[p].pc = "write" /\ req'[p].pc # "write"

\* the history of one order, in creation order
HistOf(h, oid) == SelectSeq(h, LAMBDA r : r.OrderID = oid)

\* no request on the order is between its read and its response
Quiet(oid) == \A p \in Procs : InFlight(p) => req[p].oid # oid

\* PlaceOrder has put the order's creation record on file, ahead of any other
Created(h, oid) ==
    HistOf(h, oid) # << >> /\ HistOf(h, oid)[1].FromStatus = NoStatus

Terminal(st) == st \in {StatusDelivered, StatusCancelled}

IsCreation(r) == r.FromStatus = NoStatus
Tagged(r) == HasPrefix(r.Note, OverrideTag)
InTable(r) == Tr(r.FromStatus, r.ToStatus, RoleOf(r.ChangedBy)) \in transitionMap

\* two finished PickupOrder calls of different drivers that both read the
\* order while it was READY_FOR_PICKUP with no driver assigned
PickupPair(p, q) ==
    /\ p # q
    /\ Done(p) /\ Done(q)
    /\ req[p].h = "PickupOrder" /\ req[q].h = "PickupOrder"
    /\ req[p].oid = req[q].oid
    /\ req[p].user # req[q].user
    /\ req[p].order.Status = StatusReadyForPickup
    /\ req[q].order.Status = StatusReadyForPickup
    /\ req[p].order.DriverID = NoUser
    /\ req[q].order.DriverID = NoUser

PickedUpRecords(oid) ==
    { i \in 1..Len(history) :
          history[i].OrderID = oid /\ history[i].ToStatus = StatusPickedUp }

\* ------------------------------------------------------------------------
\* properties
\* ------------------------------------------------------------------------
\* C1: of two concurrent PickupOrder calls by different drivers on the same
\* READY_FOR_PICKUP, unassigned order, exactly one reports success and the
\* other Conflict, and the order ends with exactly one PICKED_UP record.
C1_SingleClaim ==
    \A p, q \in Procs :
        PickupPair(p, q) =>
            /\ { req[p].out, req[q].out } = {"OK", "Conflict"}
            /\ Cardinality(PickedUpRecords(req[p].oid)) = 1

\* C2: a workflow request writes its new status only if the stored status
\* at the moment of the write still equals the status it validated against.
C2_ConditionalWrite ==
    [][\A p \in Procs :
          (Writes(p) /\ req[p].h \in Workflow) =>
              orders[req[p].oid].Status = req[p].order.Status]_vars

\* C3: every change of a stored status by a workflow handler goes from the
\* status stored immediately before the write along a triple of the table.
C3_TableOnly ==
    [][\A p \in Procs :
          (/\ Writes(p)
           /\ req[p].h \in Workflow
           /\ orders'[req[p].oid].Status # orders[req[p].oid].Status) =>
              Tr(orders[req[p].oid].Status, orders'[req[p].oid].Status,
                 ActorOf(req[p].h)) \in transitionMap]_vars

\* C4: once a placed order is DELIVERED or CANCELLED, no step of a request
\* other than AdminForceOrderStatus changes its status, or appends a history
\* record for it other than the record of the entry into that status.
C4_TerminalClosure ==
    [][\A oid \in 1..Len(orders) :
          (Created(history, oid) /\ Terminal(orders[oid].Status)) =>
              \A p \in Procs :
                  (/\ req'[p] # req[p]
                   /\ req[p].oid = oid
                   /\ req[p].h # "AdminForceOrderStatus") =>
                      /\ orders'[oid].Status = orders[oid].Status
                      /\ \/ HistOf(history', oid) = HistOf(history, oid)
                         \/ req[p].to = orders[oid].Status]_vars

\* C5: whenever no request on a placed order is in flight, its stored status
\* is the ToStatus of its most recent history record.
C5_StatusIsLastRecord ==
    \A oid \in 1..Len(orders) :
        (Quiet(oid) /\ Created(history, oid)) =>
            LET h == HistOf(history, oid)
            IN  Len(h) > 0 /\ orders[oid].Status = h[Len(h)].ToStatus

\* C6: every history record other than a creation record has (FromStatus,
\* ToStatus, role of its writer) in the transition table or carries the
\* admin override tag.
C6_RecordsLegalOrTagged ==
    \A i \in 1..Len(history) :
        ~IsCreation(history[i]) => InTable(history[i]) \/ Tagged(history[i])

\* a driver's delivery record and a tagged override record are both on file
C6_Witness ==
    /\ \E i \in 1..Len(history) :
           /\ history[i].ToStatus = StatusDelivered
           /\ history[i].ChangedBy \in Drivers
    /\ \E i \in 1..Len(history) :
           Tagged(history[i]) /\ history[i].ChangedBy = NoUser

\* C7: in creation order, each record of a placed order starts from the
\* ToStatus of the record before it, and moves along the table unless it is
\* tagged.
C7_HistoryIsWalk ==
    \A oid \in 1..Len(orders) :
        LET h == HistOf(history, oid)
        IN  \A k \in 2..Len(h) :
                Created(history, oid) =>
                /\ h[k].FromStatus = h[k - 1].ToStatus
                /\ InTable(h[k]) \/ Tagged(h[k])

\* C8: DriverID starts unset and, once it holds a driver's ID, no step
\* changes or clears it.
C8_DriverWrittenOnce ==
    [][/\ \A oid \in 1..Len(orders) :
              orders[oid].DriverID # NoUser =>
                  orders'[oid].DriverID = orders[oid].DriverID
       /\ \A oid \in (Len(orders) + 1)..Len(orders') :
              orders'[oid].DriverID = NoUser]_vars

\* C9: after two PickupOrder calls that started from the same
\* READY_FOR_PICKUP, unassigned state have completed, DriverID is the ID of
\* the single driver that received the success response.
C9_DriverIsTheWinner ==
    \A p, q \in Procs :
        PickupPair(p, q) =>
            \E w \in {p, q} :
                /\ req[w].out = "OK"
                /\ \A l \in {p, q} \ {w} : req[l].out # "OK"
                /\ orders[req[w].oid].DriverID = req[w].user

\* C10 as stated: an order whose DriverID is set is PICKED_UP or DELIVERED.
C10_AssignedIsCollected ==
    \A oid \in 1..Len(orders) :
        orders[oid].DriverID # NoUser =>
            orders[oid].Status \in {StatusPickedUp, StatusDelivered}

\* C10 as amended: DriverID is written only together with the entry into
\* PICKED_UP: every step that sets or changes an order's DriverID leaves
\* that order's stored status PICKED_UP.
C10_AssignedOnPickupOnly ==
    [][\A oid \in 1..Len(orders') :
          LET before == IF oid <= Len(orders)
                        THEN orders[oid].DriverID ELSE NoUser
          IN  orders'[oid].DriverID # before =>
                  orders'[oid].Status = StatusPickedUp]_vars

\* a driver has just written the assignment and not yet the history record
C10_Witness ==
    \E p \in Procs :
        /\ req[p].h = "PickupOrder"
        /\ req[p].pc = "hist"
        /\ orders[req[p].oid].DriverID = req[p].user
        /\ orders[req[p].oid].Status = StatusPickedUp

\* goroutine p sends its response in this step
Responds(p) == req[p].pc # "done" /\ req'[p].pc = "done"

\* C11: each success response of PlaceOrder, CancelOrder, UpdateOrderStatus,
\* PickupOrder, DeliverOrder or AdminForceOrderStatus comes with exactly one
\* new history record of its order and a failure response with none, so
\* that the records of an order number its success responses.
C11_OneRecordPerSuccess ==
    [][/\ \A oid \in 1..Len(orders') :
              Len(HistOf(history', oid)) - Len(HistOf(history, oid)) =
                  Cardinality({ p \in Procs : /\ Responds(p)
                                              /\ req'[p].out = "OK"
                                              /\ req'[p].oid = oid })
       /\ Len(history') - Len(history) =
              Cardinality({ p \in Procs : Responds(p) /\ req'[p].out = "OK" })
       /\ \A p \in Procs :
              (Responds(p) /\ req'[p].out # "OK") => history' = history]_vars

\* one call on a placed order was rejected and another one, on the same
\* order, has just put the third record on file
C11_Witness ==
    \E p, q \in Procs :
        /\ Done(p) /\ req[p].out = "InvalidTransition"
        /\ Done(q) /\ req[q].out = "OK" /\ req[q].oid = req[p].oid
        /\ Len(HistOf(history, req[q].oid)) = 3

\* C12: the audit log is append-only: every step leaves each record on file
\* as it is and in its place; the log only grows.
C12_AppendOnly ==
    [][/\ Len(history') >= Len(history)
       /\ \A i \in 1..Len(history) : history'[i] = history[i]]_vars

\* an override has put its record behind two earlier records
C12_Witness ==
    /\ Len(history) >= 3
    /\ Tagged(history[Len(history)])
    /\ ~Tagged(history[Len(history) - 1])

\* goroutine p takes a request in this step
Takes(p) == req[p].pc = "idle" /\ req'[p].pc # "idle"

Returned(p, f) == req[p].pc = "returned" /\ req[p].h = f

\* C14: CanTransition(from, to, actor) returns nil exactly when the triple
\* (from, to, actor) is one of the 9 entries of validTransitions, and the
\* lookup map holds exactly the entries of the list.
C14_ExactTriple ==
    /\ Len(validTransitions) = 9
    /\ Cardinality(transitionMap) = 9
    /\ \A i \in 1..Len(validTransitions) : validTransitions[i] \in transitionMap
    /\ \A p \in Procs :
           Returned(p, "CanTransition") =>
               (req[p].err = "nil" <=>
                    \E i \in 1..Len(validTransitions) :
                        /\ validTransitions[i].From = req[p].from
                        /\ validTransitions[i].To = req[p].to
                        /\ validTransitions[i].Actor = req[p].actor)

\* the call for the last entry of the list has returned nil
C14_Witness ==
    \E p \in Procs :
        /\ Returned(p, "CanTransition")
        /\ req[p].from = StatusPickedUp
        /\ req[p].to = StatusDelivered
        /\ req[p].actor = "driver"
        /\ req[p].err = "nil"

\* C15: ValidTransitionsFrom(s) lists exactly the To statuses of the triples
\* whose From is s, whatever their actor, each of them once.
C15_NextStages ==
    \A p \in Procs :
        Returned(p, "ValidTransitionsFrom") =>
            LET nexts == req[p].nexts
                from == { i \in 1..Len(validTransitions) :
                              validTransitions[i].From = req[p].from }
            IN  /\ { nexts[i] : i \in 1..Len(nexts) } =
                       { validTransitions[i].To : i \in from }
                /\ \A i, j \in 1..Len(nexts) : nexts[i] = nexts[j] => i = j

\* the call for PLACED, which three triples leave towards two statuses
C15_Witness ==
    \E p \in Procs :
        /\ Returned(p, "ValidTransitionsFrom")
        /\ req[p].from = StatusPlaced
        /\ Len(req[p].nexts) = 2

\* C16: among the 7 statuses ValidTransitionsFrom is empty exactly for
\* DELIVERED and CANCELLED, and from those two CanTransition returns an
\* error for every target and every actor.
C16_TerminalStages ==
    \A p \in Procs :
        /\ (Returned(p, "ValidTransitionsFrom") /\ req[p].from \in OrderStatus) =>
               (req[p].nexts = << >> <=>
                    req[p].from \in {StatusDelivered, StatusCancelled})
        /\ (/\ Returned(p, "CanTransition")
            /\ req[p].from \in {StatusDelivered, StatusCancelled}) =>
               req[p].err # "nil"

\* a driver's move out of CANCELLED has been refused
C16_Witness ==
    \E p \in Procs :
        /\ Returned(p, "CanTransition")
        /\ req[p].from = StatusCancelled
        /\ req[p].to = StatusPickedUp
        /\ req[p].actor = "driver"
        /\ req[p].err # "nil"

\* goroutine p takes, in this step, a request of handler h that its caller's
\* role may send, on an order that exists
TakesOn(p, h) ==
    /\ Takes(p)
    /\ req'[p].h = h
    /\ RoleRequired(RoleOf(req'[p].user),
                    {IF h = "AdminForceOrderStatus" THEN RoleAdmin ELSE ActorOf(h)})
    /\ Exists(req'[p].oid)

\* the request of p was rejected in the step that took it and has touched
\* neither the orders nor the history
RejectedWith(p, outs) ==
    /\ req'[p].pc = "done"
    /\ req'[p].out \in outs
    /\ orders' = orders
    /\ history' = history

\* the request passes the checks its handler makes before CanTransition
PassesEarlierChecks(r, order) ==
    IF r.h = "CancelOrder" THEN order.CustomerID = r.user
    ELSE IF r.h = "UpdateOrderStatus"
         THEN order.RestaurantID = FirstRestaurantOf(r.user) /\ r.to # NoStatus
    ELSE IF r.h = "PickupOrder" THEN order.DriverID = NoUser
    ELSE order.DriverID = r.user

C18_AssignedMeansConflict ==
    [][\A p \in Procs :
          (/\ TakesOn(p, "PickupOrder")
           /\ orders[req'[p].oid].DriverID \notin {NoUser, req'[p].user}) =>
              RejectedWith(p, {"Conflict"})]_vars

\* a second driver asked for an order that has a driver and that an
\* override has put back to READY_FOR_PICKUP
C18_Witness ==
    \E p \in Procs :
        /\ Done(p)
        /\ req[p].h = "PickupOrder"
        /\ req[p].out = "Conflict"
        /\ req[p].order.DriverID \notin {NoUser, req[p].user}
        /\ req[p].order.Status = StatusReadyForPickup

C20_OverrideAlwaysApplies ==
    [][\A p \in Procs :
          /\ (/\ Takes(p)
              /\ req'[p].h = "AdminForceOrderStatus"
              /\ RoleOf(req'[p].user) = RoleAdmin
              /\ req'[p].to # NoStatus) =>
                 IF Exists(req'[p].oid)
                 THEN req'[p].pc = "write"
                 ELSE req'[p].pc = "done" /\ req'[p].out = "NotFound"
          /\ (Writes(p) /\ req[p].h = "AdminForceOrderStatus") =>
                 orders'[req[p].oid].Status = req[p].to
          /\ (Responds(p) /\ req[p].h = "AdminForceOrderStatus") =>
                 req'[p].out = "OK"
          /\ req'[p].h = "AdminForceOrderStatus" =>
                 req'[p].out # "InvalidTransition"]_vars

\* an override has moved an order out of DELIVERED or CANCELLED
C20_Witness ==
    \E p \in Procs :
        /\ Done(p)
        /\ req[p].h = "AdminForceOrderStatus"
        /\ req[p].out = "OK"
        /\ Terminal(req[p].order.Status)
        /\ ~Terminal(orders[req[p].oid].Status)

\* goroutine p creates its history record in this step
Appends(p) == req[p].pc = "hist" /\ req'[p].pc = "done"

\* C21: the note of a history record starts with the override tag exactly
\* when AdminForceOrderStatus wrote the record.
C21_TagIffOverride ==
    [][\A p \in Procs :
          Appends(p) =>
              (Tagged(history'[Len(history')]) <=>
                   req[p].h = "AdminForceOrderStatus")]_vars

\* C22: the FromStatus that AdminForceOrderStatus records is the status
\* stored immediately before its status write, in every interleaving.
C22_OverrideFromIsStored ==
    [][\A p \in Procs :
          (Writes(p) /\ req[p].h = "AdminForceOrderStatus") =>
              orders[req[p].oid].Status = req[p].order.Status]_vars

\* the current stage a body names
CurrentStageIn(body) ==
    IF "current_status" \in DOMAIN body THEN body.current_status
    ELSE IF "current_state" \in DOMAIN body THEN body.current_state
    ELSE NoStatus

\* the next stages a body names: its list of them or, without one, the
\* statuses its reason lists after "are: "
NextStagesIn(body) ==
    IF "valid_next_states" \in DOMAIN body
    THEN { body.valid_next_states[i] : i \in 1..Len(body.valid_next_states) }
    ELSE IF "reason" \in DOMAIN body
    THEN { body.reason[i] : i \in 11..Len(body.reason) } \cap OrderStatus
    ELSE {"?"}

\* C23: a transition request of a role its route admits, the override (with
\* a status in its body) included, that names an order that does not
\* exist fails with NotFound and creates no order and no history record.
C23_AbsentIsNotFound ==
    [][\A p \in Procs :
          (/\ Takes(p)
           /\ req'[p].h \in Workflow \cup {"AdminForceOrderStatus"}
           /\ RoleOf(req'[p].user) =
                  (IF req'[p].h = "AdminForceOrderStatus"
                   THEN RoleAdmin ELSE ActorOf(req'[p].h))
           /\ ~Exists(req'[p].oid)
           /\ (req'[p].h = "AdminForceOrderStatus" => req'[p].to # NoStatus)) =>
              RejectedWith(p, {"NotFound"})]_vars

\* an override named an order that does not exist, next to one that does
C23_Witness ==
    \E p \in Procs :
        /\ Done(p)
        /\ req[p].h = "AdminForceOrderStatus"
        /\ req[p].out = "NotFound"
        /\ Len(orders) = 1
        /\ req[p].oid = 2

\* C24: the body of every InvalidTransition denial of CancelOrder,
\* UpdateOrderStatus, PickupOrder and DeliverOrder names the stored status
\* of the order and exactly the statuses of ValidTransitionsFrom of it.
C24_DenialCarriesStages ==
    [][\A p \in Procs :
          (/\ Takes(p)
           /\ req'[p].h \in Workflow
           /\ req'[p].out = "InvalidTransition") =>
              LET cur == orders[req'[p].oid].Status
                  nexts == ValidTransitionsFrom(cur)
              IN  /\ CurrentStageIn(ResponseBody(req'[p])) = cur
                  /\ NextStagesIn(ResponseBody(req'[p])) =
                         { nexts[i] : i \in 1..Len(nexts) }]_vars

\* the customer's cancel of a PREPARING order was refused; its body has no
\* list of next states, its reason names READY_FOR_PICKUP
C24_Witness ==
    \E p \in Procs :
        /\ Done(p)
        /\ req[p].h = "CancelOrder"
        /\ req[p].out = "InvalidTransition"
        /\ req[p].order.Status = StatusPreparing
        /\ NextStagesIn(ResponseBody(req[p])) = {StatusReadyForPickup}

\* the statuses the records of one order lead to, in creation order
StagesOf(oid) ==
    [i \in 1..Len(HistOf(history, oid)) |-> HistOf(history, oid)[i].ToStatus]

\* C25: with one request at a time, the restaurant's CONFIRMED on its
\* PLACED order is accepted and answers previous PLACED, current CONFIRMED;
\* the customer's cancel of the CONFIRMED order is accepted and leaves it
\* CANCELLED; a driver's pickup of the CANCELLED order is then refused
\* with InvalidTransition and no next status, and the order stays
\* CANCELLED with no driver.
C25_ConfirmCancelPickup ==
    [][\A p \in Procs :
          /\ (/\ TakesOn(p, "UpdateOrderStatus")
              /\ PassesEarlierChecks(req'[p], orders[req'[p].oid])
              /\ orders[req'[p].oid].Status = StatusPlaced
              /\ req'[p].to = StatusConfirmed) => req'[p].pc = "write"
          /\ (/\ Responds(p)
              /\ req'[p].h = "UpdateOrderStatus"
              /\ req'[p].out = "OK"
              /\ req'[p].order.Status = StatusPlaced
              /\ req'[p].to = StatusConfirmed) =>
                 /\ ResponseBody(req'[p]).previous_status = StatusPlaced
                 /\ ResponseBody(req'[p]).current_status = StatusConfirmed
                 /\ orders'[req'[p].oid].Status = StatusConfirmed
          /\ (/\ TakesOn(p, "CancelOrder")
              /\ PassesEarlierChecks(req'[p], orders[req'[p].oid])
              /\ orders[req'[p].oid].Status = StatusConfirmed) =>
                 req'[p].pc = "write"
          /\ (/\ Responds(p)
              /\ req'[p].h = "CancelOrder"
              /\ req'[p].out = "OK") =>
                 orders'[req'[p].oid].Status = StatusCancelled
          /\ (/\ TakesOn(p, "PickupOrder")
              /\ orders[req'[p].oid].Status = StatusCancelled
              /\ orders[req'[p].oid].DriverID = NoUser) =>
                 /\ RejectedWith(p, {"InvalidTransition"})
                 /\ NextStagesIn(ResponseBody(req'[p])) = {}
                 /\ orders'[req'[p].oid].Status = StatusCancelled
                 /\ orders'[req'[p].oid].DriverID = NoUser]_vars

\* the three requests of the scenario have run in this order on one order
C25_Witness ==
    \E p \in Procs :
        /\ Done(p)
        /\ req[p].h = "PickupOrder"
        /\ req[p].out = "InvalidTransition"
        /\ StagesOf(req[p].oid) =
               << StatusPlaced, StatusConfirmed, StatusCancelled >>
        /\ \A i \in 1..Len(history) : ~Tagged(history[i])
        /\ orders[req[p].oid].Status = StatusCancelled
        /\ orders[req[p].oid].DriverID = NoUser

\* C26: no write of a customer's or a restaurant's request sets to
\* CANCELLED an order that is PREPARING, READY_FOR_PICKUP, PICKED_UP or
\* DELIVERED at the moment of the write, in any interleaving.
C26_CancelOnlyEarly ==
    [][\A p \in Procs :
          (/\ Writes(p)
           /\ req[p].h \in {"CancelOrder", "UpdateOrderStatus"}
           /\ orders'[req[p].oid].Status = StatusCancelled) =>
              orders[req[p].oid].Status \notin
                  {StatusPreparing, StatusReadyForPickup,
                   StatusPickedUp, StatusDelivered}]_vars

\* C27: every history record, the override's included, has in ChangedBy the
\* ID of the authenticated user whose request wrote it.
C27_ChangedByIsCaller ==
    [][\A p \in Procs :
          Appends(p) =>
              history'[Len(history')].ChangedBy = req[p].user]_vars

\* the creation records on file for order oid in history h
CreationRecords(h, oid) ==
    { i \in 1..Len(h) : h[i].OrderID = oid /\ IsCreation(h[i]) }

\* C28: PlaceOrder that succeeds adds one order, PLACED, of the customer,
\* with no driver; it adds one history record for it, from no status to
\* PLACED, changed by the customer; when it answers that record is the
\* only creation record of the order.
C28_PlaceOrderCreates ==
    [][\A p \in Procs :
          /\ (Takes(p) /\ req'[p].h = "PlaceOrder" /\ req'[p].pc = "hist") =>
                 /\ Len(orders') = Len(orders) + 1
                 /\ SubSeq(orders', 1, Len(orders)) = orders
                 /\ req'[p].oid = Len(orders')
                 /\ orders'[Len(orders')].Status = StatusPlaced
                 /\ orders'[Len(orders')].DriverID = NoUser
                 /\ orders'[Len(orders')].CustomerID = req'[p].user
                 /\ history' = history
          /\ (Responds(p) /\ req'[p].h = "PlaceOrder" /\ req'[p].out = "OK") =>
                 /\ Len(history') = Len(history) + 1
                 /\ SubSeq(history', 1, Len(history)) = history
                 /\ history'[Len(history')].OrderID = req'[p].oid
                 /\ history'[Len(history')].FromStatus = NoStatus
                 /\ history'[Len(history')].ToStatus = StatusPlaced
                 /\ history'[Len(history')].ChangedBy = req'[p].user
                 /\ CreationRecords(history', req'[p].oid) = {Len(history')}
                 /\ orders' = orders]_vars

\* PlaceOrder has answered 201 and its order and record are on file
C28_Witness ==
    \E p \in Procs :
        /\ Done(p)
        /\ req[p].h = "PlaceOrder"
        /\ req[p].out = "OK"
        /\ orders[req[p].oid].Status = StatusPlaced
        /\ orders[req[p].oid].DriverID = NoUser
        /\ Cardinality(CreationRecords(history, req[p].oid)) = 1

\* C29: the stored status of every order is one of the seven statuses,
\* whatever status the requests name.
C29_StatusEnumerated ==
    \A oid \in 1..Len(orders) : orders[oid].Status \in OrderStatus

\* C30: the status write of CancelOrder changes only an order of the
\* calling customer and that of UpdateOrderStatus only an order of the
\* calling owner's restaurant; either request on an order of someone else
\* is refused with Forbidden and changes nothing.
C30_OwnOrdersOnly ==
    [][\A p \in Procs :
          /\ (Writes(p) /\ req[p].h = "CancelOrder") =>
                 /\ orders[req[p].oid].CustomerID = req[p].user
                 /\ \A o \in 1..Len(orders) :
                        o # req[p].oid => orders'[o] = orders[o]
          /\ (Writes(p) /\ req[p].h = "UpdateOrderStatus") =>
                 /\ restaurants[orders[req[p].oid].RestaurantID].OwnerID =
                        req[p].user
                 /\ \A o \in 1..Len(orders) :
                        o # req[p].oid => orders'[o] = orders[o]
          /\ (/\ TakesOn(p, "CancelOrder")
              /\ orders[req'[p].oid].CustomerID # req'[p].user) =>
                 RejectedWith(p, {"Forbidden"})
          /\ (/\ TakesOn(p, "UpdateOrderStatus")
              /\ restaurants[orders[req'[p].oid].RestaurantID].OwnerID #
                     req'[p].user) =>
                 RejectedWith(p, {"Forbidden"})]_vars

\* the owner of another restaurant and another customer were each refused
\* on an order that is on file
C30_Witness ==
    \E p \in Procs :
        /\ Done(p)
        /\ req[p].out = "Forbidden"
        /\ Exists(req[p].oid)
        /\ \/ /\ req[p].h = "UpdateOrderStatus"
              /\ RoleOf(req[p].user) = RoleRestaurant
              /\ restaurants[orders[req[p].oid].RestaurantID].OwnerID #
                     req[p].user
           \/ /\ req[p].h = "CancelOrder"
              /\ RoleOf(req[p].user) = RoleCustomer
              /\ orders[req[p].oid].CustomerID # req[p].user

\* the restaurants on file that user u owns
RestaurantsOf(u) ==
    { i \in 1..Len(restaurants) : restaurants[i].OwnerID = u }

\* C31: after any sequence of CreateRestaurant calls every restaurant-role
\* user owns at most one restaurant, so the restaurant UpdateOrderStatus
\* finds by owner id is the only one of that owner.
C31_OneRestaurantPerOwner ==
    \A u \in Owners :
        /\ Cardinality(RestaurantsOf(u)) <= 1
        /\ RestaurantsOf(u) \subseteq {FirstRestaurantOf(u)}

\* the menu items an item list names, each once
ItemTypes(items) == { items[i] : i \in 1..Len(items) }

\* C32: the estimated time PlaceOrder stores is 30 plus 5 times the number
\* of different menu items of the accepted list, also when the list names
\* a menu item in more than one entry.
C32_EtaByItemTypes ==
    [][\A p \in Procs :
          (Takes(p) /\ req'[p].h = "PlaceOrder" /\ req'[p].pc = "hist") =>
              orders'[req'[p].oid].EstimatedTime =
                  30 + (5 * Cardinality(ItemTypes(orders'[req'[p].oid].Items)))]_vars

Rejecting == Workflow \cup {"AdminForceOrderStatus"}

\* C33: a request of CancelOrder, UpdateOrderStatus, PickupOrder,
\* DeliverOrder or AdminForceOrderStatus that ends in a rejection is
\* answered in the step that took it, and that step changes neither an
\* order (status, DriverID, estimated time) nor the history.
C33_RejectionWritesNothing ==
    [][\A p \in Procs :
          (Responds(p) /\ req'[p].h \in Rejecting /\ req'[p].out # "OK") =>
              /\ Takes(p)
              /\ orders' = orders
              /\ history' = history]_vars

\* a driver was refused with InvalidTransition on an order without a driver
C33_Witness ==
    \E p \in Procs :
        /\ Done(p)
        /\ req[p].h = "PickupOrder"
        /\ req[p].out = "InvalidTransition"
        /\ orders[req[p].oid].DriverID = NoUser
        /\ req[p].order = orders[req[p].oid]

\* C34: every order that is PICKED_UP or DELIVERED has a driver assigned.
C34_PickedUpHasDriver ==
    \A oid \in 1..Len(orders) :
        orders[oid].Status \in {StatusPickedUp, StatusDelivered} =>
            orders[oid].DriverID # NoUser

\* the request of user u on order oid that goroutine 1, idle, would accept
CancelWouldSucceed(u, oid) ==
    ENABLED (/\ Route(1, u, {RoleCustomer}, "CancelOrder",
                      CancelOrderRead(1, u, oid))
             /\ req'[1].pc = "write")
UpdateWouldSucceed(u, oid) ==
    \E st \in OrderStatus :
        ENABLED (/\ Route(1, u, {RoleRestaurant}, "UpdateOrderStatus",
                          UpdateOrderStatusRead(1, u, oid, st, << >>))
                 /\ req'[1].pc = "write")
PickupWouldSucceed(u, oid) ==
    ENABLED (/\ Route(1, u, {RoleDriver}, "PickupOrder",
                      PickupOrderRead(1, u, oid))
             /\ req'[1].pc = "write")
DeliverWouldSucceed(u, oid) ==
    ENABLED (/\ Route(1, u, {RoleDriver}, "DeliverOrder",
                      DeliverOrderRead(1, u, oid))
             /\ req'[1].pc = "write")

\* C35: whenever no request is running, every order in a non-terminal
\* status has some user whose cancel, status update, pickup or deliver
\* request would be accepted.
C35_NoOrderStuck ==
    \A oid \in 1..Len(orders) :
        (/\ req[1].pc = "idle"
         /\ orders[oid].Status \in OrderStatus
         /\ ~Terminal(orders[oid].Status)) =>
            \E u \in Users :
                \/ CancelWouldSucceed(u, oid)
                \/ UpdateWouldSucceed(u, oid)
                \/ PickupWouldSucceed(u, oid)
                \/ DeliverWouldSucceed(u, oid)

\* the orders GetAvailableOrders returns, as a set
Available == { GetAvailableOrders[i] : i \in 1..Len(GetAvailableOrders) }

\* C36: with one request at a time, a driver's PickupOrder is accepted
\* exactly when the order is among those GetAvailableOrders returns at
\* that moment; its one write then sets status PICKED_UP and the caller as
\* DriverID, and its response is the 200.
C36_PickupIffAvailable ==
    [][\A p \in Procs :
          /\ (/\ Takes(p)
              /\ req'[p].h = "PickupOrder"
              /\ RoleOf(req'[p].user) = RoleDriver) =>
                 (req'[p].pc = "write" <=> req'[p].oid \in Available)
          /\ (Writes(p) /\ req[p].h = "PickupOrder") =>
                 /\ req[p].oid \in Available
                 /\ orders'[req[p].oid].Status = StatusPickedUp
                 /\ orders'[req[p].oid].DriverID = req[p].user
                 /\ req'[p].pc = "hist"
          /\ (Responds(p) /\ req'[p].h = "PickupOrder" /\ ~Takes(p)) =>
                 /\ req'[p].out = "OK"
                 /\ orders'[req[p].oid].Status = StatusPickedUp
                 /\ orders'[req[p].oid].DriverID = req[p].user]_vars

\* a pickup succeeded on an order that was available and, with its driver
\* assigned, no longer is
C36_Witness ==
    \E p \in Procs :
        /\ Done(p)
        /\ req[p].h = "PickupOrder"
        /\ req[p].out = "OK"
        /\ req[p].order.Status = StatusReadyForPickup
        /\ orders[req[p].oid].DriverID = req[p].user
        /\ req[p].oid \notin Available

\* C37: the first history record of every order is its creation record,
\* and a transition request reads an order only when that record is on
\* file, also when requests interleave with PlaceOrder.
C37_CreationRecordFirst ==
    [][/\ \A oid \in 1..Len(orders') :
              HistOf(history', oid) # << >> =>
                  /\ IsCreation(HistOf(history', oid)[1])
                  /\ HistOf(history', oid)[1].ToStatus = StatusPlaced
       /\ \A p \in Procs :
              (/\ Takes(p)
               /\ req'[p].h \in Rejecting
               /\ Exists(req'[p].oid)
               /\ req'[p].order # NoOrder) =>
                  Created(history, req'[p].oid)]_vars

\* the pairs of the table, whoever the actor
Edges == { << k.From, k.To >> : k \in transitionMap }

\* the statuses reached from status s by at least one and at most n edges
RECURSIVE Reach(_, _)
Reach(s, n) ==
    IF n = 0 THEN {}
    ELSE LET next == { e[2] : e \in { d \in Edges : d[1] = s } }
         IN  next \cup UNION { Reach(t, n - 1) : t \in next }

Acyclic == \A s \in OrderStatus : s \notin Reach(s, Cardinality(OrderStatus))

\* the edges of the longest path that starts at s, with at most n counted
RECURSIVE Longest(_, _)
Longest(s, n) ==
    LET next == { e[2] : e \in { d \in Edges : d[1] = s } }
    IN  IF n = 0 \/ next = {} THEN 0
        ELSE 1 + CHOOSE m \in { Longest(t, n - 1) : t \in next } :
                     \A k \in { Longest(t, n - 1) : t \in next } : k <= m

LongestPath ==
    CHOOSE m \in { Longest(s, Cardinality(OrderStatus)) : s \in OrderStatus } :
        \A k \in { Longest(s, Cardinality(OrderStatus)) : s \in OrderStatus } :
            k <= m

\* the statuses order oid has been stored with: PLACED, those on record and
\* those written by a request that has yet to file its record
Held(oid) ==
    {StatusPlaced}
    \cup { HistOf(history, oid)[i].ToStatus : i \in 1..Len(HistOf(history, oid)) }
    \cup { req[q].to : q \in { r \in Procs : /\ req[r].oid = oid
                                              /\ req[r].h \in Workflow
                                              /\ req[r].pc \in {"eta", "hist"} } }

\* the records of order oid after its creation record
Transitions(h, oid) ==
    { i \in 1..Len(h) : h[i].OrderID = oid /\ ~IsCreation(h[i]) }

\* C38: the table is acyclic and its longest path has 5 edges; while no
\* override has been made, no write of a workflow request stores a status
\* the order has left, and no order has more than 5 records after its
\* creation record, in any interleaving.
C38_NoReturnToLeftStage ==
    [][/\ Acyclic
       /\ LongestPath = 5
       /\ \A p \in Procs :
              (Writes(p) /\ req[p].h \in Workflow /\ overrides = 0) =>
                  orders'[req[p].oid].Status \notin
                      (Held(req[p].oid) \ {orders[req[p].oid].Status})
       /\ \A oid \in 1..Len(orders') :
              overrides' = 0 =>
                  Cardinality(Transitions(history', oid)) <= 5]_vars

\* the (from, to, actor) triples of the published entries, an entry of
\* "restaurant or customer" counted as two
Expand(info) ==
    UNION { IF info[i].actor = "restaurant or customer"
            THEN { Tr(info[i].from, info[i].to, "restaurant"),
                   Tr(info[i].from, info[i].to, "customer") }
            ELSE { Tr(info[i].from, info[i].to, info[i].actor) } :
            i \in 1..Len(info) }

\* C39: the entries GetStateMachineInfo publishes, "restaurant or customer"
\* expanded, are the 9 triples of validTransitions, and its terminal
\* states are the statuses for which ValidTransitionsFrom is empty.
C39_PublishedIsEnforced ==
    \A p \in Procs :
        Returned(p, "GetStateMachineInfo") =>
            /\ Expand(req[p].info) = transitionMap
            /\ Cardinality(Expand(req[p].info)) = 9
            /\ Len(validTransitions) = 9
            /\ { req[p].nexts[i] : i \in 1..Len(req[p].nexts) } =
                   { s \in OrderStatus : ValidTransitionsFrom(s) = << >> }

\* GetStateMachineInfo has answered with its seven entries
C39_Witness ==
    \E p \in Procs :
        /\ Returned(p, "GetStateMachineInfo")
        /\ Len(req[p].info) = 7
        /\ Len(req[p].nexts) = 2

====
